---- MODULE Spec2Model ----
(***************************************************************************)
(* downloadm3u8.py: fetch an m3u8 playlist, download its '.ts' segments    *)
(* with at most 5 concurrent requests, write a concat manifest of the      *)
(* segment directory and hand it to ffmpeg.                                *)
(*                                                                         *)
(* Text is modelled at two grains.  Playlist text is a sequence of tokens  *)
(* (strings below), which is what split / endswith / strip / urljoin look  *)
(* at.  File names are sequences of character codes, which is what         *)
(* sorted() compares.                                                      *)
(***************************************************************************)
EXTENDS Integers, Sequences, FiniteSets, TLC

(* ---------------- bounds ---------------- *)
MaxSeg == 6          \* longest playlist of a fresh run (segments)
MaxRerunSeg == 2     \* longest playlist in the re-run specification
MaxRuns == 2         \* program executions in the re-run specification
MaxLen == 4          \* longest playlist text of the parser specification (tokens)
LongCount == 1001    \* playlist length of the resumed long download
MaxMissing == 3      \* segment files still missing when the long download resumes
MaxFairSeg == 7      \* longest playlist of the specification with fairness (segments)

(* ---------------- playlist text ---------------- *)
NL == "\n"
CR == "\r"
SP == " "
TS == ".ts"
TAG == "#EXT"
ABS == "https://other.example/"
BaseUrl == <<"https://cdn.example/path/">>
Whitespace == {CR, SP}
Tokens == {NL, CR, SP, TS, TAG, ABS, "a"}

\* content.split('\n').  The text is cut at one of its newlines and each
\* side is split in turn; cutting at the middle newline keeps the recursion
\* shallow on a long playlist, and the pieces are the same for any cut.
RECURSIVE split(_)
split(content) ==
  LET nls == {p \in 1..Len(content) : content[p] = NL}
  IN IF nls = {} THEN <<content>>
     ELSE LET p == CHOOSE x \in nls :
                     Cardinality({y \in nls : y < x}) = Cardinality(nls) \div 2
          IN split(SubSeq(content, 1, p - 1)) \o split(SubSeq(content, p + 1, Len(content)))

\* line.endswith('.ts')
endswith_ts(line) == Len(line) > 0 /\ line[Len(line)] = TS

\* line.strip()
RECURSIVE strip(_)
strip(line) ==
  IF line = <<>> THEN line
  ELSE IF Head(line) \in Whitespace THEN strip(Tail(line))
  ELSE IF line[Len(line)] \in Whitespace THEN strip(SubSeq(line, 1, Len(line) - 1))
  ELSE line

\* urljoin(base_url, ref): a reference with its own scheme and host is kept,
\* a relative one is appended to the base directory.
urljoin(base, ref) ==
  IF ref # <<>> /\ Head(ref) = ABS THEN ref ELSE base \o ref

\* a filter that takes every line for a segment reference
SegmentLineAny(line) == TRUE

SegmentLineTest(line) == endswith_ts(line)

parse_m3u8(content, base_url) ==
  LET sel == SelectSeq(split(content), SegmentLineTest)
  IN [k \in 1..Len(sel) |-> urljoin(base_url, strip(sel[k]))]

(* ---------------- file names ---------------- *)
PadWidth == 3
SemaphoreLimit == 5
SegPrefix == <<115, 101, 103, 109, 101, 110, 116, 95>>          \* "segment_"
TsSuffix == <<46, 116, 115>>                                    \* ".ts"
ListName == <<115, 101, 103, 109, 101, 110, 116, 95, 108, 105, 115, 116, 46, 116, 120, 116>>  \* "segment_list.txt"

RECURSIVE Digits(_)
Digits(n) == IF n < 10 THEN <<n>> ELSE Digits(n \div 10) \o <<n % 10>>

\* format(i, '03d'): at least PadWidth digits, zero-filled on the left
ZeroPad(ds) ==
  IF Len(ds) >= PadWidth THEN ds ELSE [k \in 1..(PadWidth - Len(ds)) |-> 0] \o ds

\* a name that does not depend on the index
SegmentNameFixed(i) == SegPrefix \o TsSuffix

\* f'segment_{i:03d}.ts'
SegmentName(i) ==
  LET ds == ZeroPad(Digits(i))
  IN SegPrefix \o [k \in 1..Len(ds) |-> 48 + ds[k]] \o TsSuffix

\* filename.endswith('.ts')
NameEndsWithTs(name) ==
  Len(name) >= 3 /\ SubSeq(name, Len(name) - 2, Len(name)) = TsSuffix

\* str.__lt__: code-point lexicographic order
StrLess(a, b) ==
  LET n == IF Len(a) < Len(b) THEN Len(a) ELSE Len(b)
      d == {k \in 1..n : a[k] # b[k]}
  IN IF d = {} THEN Len(a) < Len(b)
     ELSE LET k == CHOOSE x \in d : \A y \in d : x <= y IN a[k] < b[k]

\* os.listdir(input_dir) once segment_list.txt has been opened for writing
ListDir(d) ==
  LET top == IF DOMAIN d = {} THEN 0
             ELSE 1 + (CHOOSE m \in DOMAIN d : \A e \in DOMAIN d : e <= m)
      present == SelectSeq([k \in 1..top |-> k - 1], LAMBDA x : x \in DOMAIN d)
  IN <<ListName>> \o [k \in 1..Len(present) |-> SegmentName(present[k])]

\* the lines written to segment_list.txt, as the file names they reference
ManifestOf(d) == SelectSeq(SortSeq(ListDir(d), StrLess), NameEndsWithTs)

(* ---------------- the served playlist ---------------- *)
ErrorBody == <<"<html>", NL, "404", SP, "Not", SP, "Found", NL>>

\* "#EXT\n" then n lines "<name>.ts\n" then "#EXT"
PlaylistOf(n) ==
  [p \in 1..(3 * n + 3) |->
     IF p = 1 \/ p = 3 * n + 3 THEN TAG
     ELSE IF p = 2 THEN NL
     ELSE LET q == p - 3
          IN IF q % 3 = 0 THEN (IF (q \div 3) % 2 = 0 THEN "a" ELSE "b")
             ELSE IF q % 3 = 1 THEN TS ELSE NL]

(* ---------------- state ---------------- *)
VARIABLES
  pc,             \* position of main()
  playlist,       \* text the server holds at m3u8_url
  playlistStatus, \* how the retrieval of the playlist went: "none", "ok", "bad", "transport"
  m3u8_content,   \* main: m3u8_content
  segments,       \* main: segments
  task,           \* download_segments: tasks, index -> state of the job
  started,        \* jobs whose first step the event loop has run
  sem,            \* semaphore._value
  waiters,        \* semaphore._waiters (FIFO)
  sessionClosed,  \* the ClientSession of download_segments has been closed
  dir,            \* video_segments/: segment index -> content of its file
  requests,       \* segment index -> session.get calls issued for it in this run
  listed,         \* video_segments/segment_list.txt exists
  manifest,       \* file names referenced by segment_list.txt, in file order
  outcome,        \* "running", "ok" (exit 0) or "error" (traceback, exit 1)
  errPhase,       \* phase whose exception ended the run
  muxer,          \* how ffmpeg ended: "none", "ok", "nonzero", "notfound"
  runs            \* executions of the program started so far

vars == <<pc, playlist, playlistStatus, m3u8_content, segments, task, started,
          sem, waiters, sessionClosed, dir, requests, listed, manifest, outcome,
          errPhase, muxer, runs>>

N == Len(segments)
NumTasks == Cardinality(DOMAIN task)
Exists(t) == t \in DOMAIN dir
Terminal == {"done", "skipped", "failed", "cancelled"}
Holding == {"woken", "fetching", "streaming"}
Holders == {t \in DOMAIN task : task[t] \in Holding}
InState(st) == {t \in DOMAIN task : task[t] = st}
\* positions of a main() that lets the event loop run from the first create_task on
TaskPcsEager == {"dispatch", "gather", "unwinding"}

\* positions of main() at which it is suspended and the event loop runs the jobs
TaskPcs == {"gather", "unwinding"}

\* The event loop runs every step that is already scheduled (the first step
\* of a new job, the wake-up of a job that was handed a slot) before it
\* handles a network event or resumes main().
ReadyQueueEmpty == started = N /\ InState("woken") = {}

ProcessInit ==
  /\ pc = "start"
  /\ playlistStatus = "none"
  /\ muxer = "none"
  /\ m3u8_content = <<>>
  /\ segments = <<>>
  /\ task = <<>>
  /\ started = 0
  /\ sem = SemaphoreLimit
  /\ waiters = <<>>
  /\ sessionClosed = FALSE
  /\ requests = <<>>
  /\ outcome = "running"
  /\ errPhase = "none"

\* a first run in a directory that os.makedirs has just created
Init ==
  /\ ProcessInit
  /\ playlist \in {PlaylistOf(n) : n \in 0..MaxSeg}
  /\ dir = <<>>
  /\ listed = FALSE
  /\ manifest = <<>>
  /\ runs = 1

(* ---------------- main: playlist retrieval and parsing ---------------- *)
\* session.get(m3u8_url) / response.text(): the status is never inspected
FetchPlaylist(r) ==
  /\ pc = "start"
  /\ playlistStatus' = r
  /\ IF r = "transport"
     THEN /\ pc' = "crashed"
          /\ outcome' = "error"
          /\ errPhase' = "playlist"
          /\ UNCHANGED m3u8_content
     ELSE /\ pc' = "parse"
          /\ m3u8_content' = IF r = "ok" THEN playlist ELSE ErrorBody
          /\ UNCHANGED <<outcome, errPhase>>
  /\ UNCHANGED <<playlist, segments, task, started, sem, waiters, sessionClosed,
                 dir, requests, listed, manifest, runs,
                 muxer>>

\* segments = parse_m3u8(...); download_segments creates semaphore and session
Parse ==
  /\ pc = "parse"
  /\ segments' = parse_m3u8(m3u8_content, BaseUrl)
  /\ sem' = SemaphoreLimit
  /\ pc' = "dispatch"
  /\ UNCHANGED <<playlist, m3u8_content, task, started, waiters, sessionClosed,
                 dir, requests, listed, manifest, outcome, errPhase, runs,
                 playlistStatus, muxer>>

(* ---------------- download_segments ---------------- *)
\* one iteration of the for loop: create_task for segment Len(task)
CreateTask ==
  /\ pc = "dispatch"
  /\ NumTasks < N
  /\ task' = [k \in 0..NumTasks |-> IF k = NumTasks THEN "created" ELSE task[k]]
  /\ requests' = [k \in 0..NumTasks |-> IF k = NumTasks THEN 0 ELSE requests[k]]
  /\ UNCHANGED <<pc, playlist, m3u8_content, segments, started, sem, waiters,
                 sessionClosed, dir, listed, manifest, outcome, errPhase, runs,
                 playlistStatus, muxer>>

\* await asyncio.gather(*tasks): main suspends, the jobs may run
AwaitGather ==
  /\ pc = "dispatch"
  /\ NumTasks = N
  /\ pc' = "gather"
  /\ UNCHANGED <<playlist, m3u8_content, segments, task, started, sem, waiters,
                 sessionClosed, dir, requests, listed, manifest, outcome,
                 errPhase, runs,
                 playlistStatus, muxer>>

(* ---------------- the semaphore ---------------- *)
\* a limiter that never makes a job wait
LockedNever == FALSE

\* Semaphore.locked(): no free slot, or somebody is already queued
Locked == sem = 0 \/ waiters # <<>>

\* a job that ends in state st without releasing its slot
FinishLeaks(t, st) ==
  /\ task' = [task EXCEPT ![t] = st]
  /\ UNCHANGED <<sem, waiters>>

\* __aexit__ of 'async with semaphore' in job t, which ends in state st:
\* release() hands the slot to the first waiter, or returns it to the pool.
Finish(t, st) ==
  /\ task' = [k \in DOMAIN task |->
                IF k = t THEN st
                ELSE IF waiters # <<>> /\ k = Head(waiters) THEN "woken"
                ELSE task[k]]
  /\ waiters' = IF waiters = <<>> THEN waiters ELSE Tail(waiters)
  /\ sem' = IF waiters = <<>> THEN sem + 1 ELSE sem

(* ---------------- download_file_with_semaphore / download_file ---------------- *)
\* os.path.exists(filename)
SkipTest(t) == Exists(t)

\* download_file up to its first suspension, for a job that holds a slot:
\* skip an existing file, else call session.get (which raises at once on a
\* closed session).
EnterDownloadFile(t) ==
  IF SkipTest(t)
  THEN Finish(t, "skipped") /\ UNCHANGED <<dir, requests>>
  ELSE IF sessionClosed
  THEN Finish(t, "failed") /\ UNCHANGED <<dir, requests>>
  ELSE /\ task' = [task EXCEPT ![t] = "fetching"]
       /\ requests' = [requests EXCEPT ![t] = @ + 1]
       /\ UNCHANGED <<sem, waiters, dir>>

\* First step of job `started`.  The event loop runs the first step of every
\* job, in creation order, before it handles any network event.
StartTask ==
  /\ pc \in TaskPcs
  /\ started < NumTasks
  /\ task[started] = "created"
  /\ started' = started + 1
  /\ IF Locked
     THEN /\ task' = [task EXCEPT ![started] = "waiting"]
          /\ waiters' = Append(waiters, started)
          /\ UNCHANGED <<sem, dir, requests>>
     ELSE IF SkipTest(started)
     THEN /\ task' = [task EXCEPT ![started] = "skipped"]
          /\ UNCHANGED <<sem, waiters, dir, requests>>
     ELSE IF sessionClosed
     THEN /\ task' = [task EXCEPT ![started] = "failed"]
          /\ UNCHANGED <<sem, waiters, dir, requests>>
     ELSE /\ sem' = sem - 1
          /\ task' = [task EXCEPT ![started] = "fetching"]
          /\ requests' = [requests EXCEPT ![started] = @ + 1]
          /\ UNCHANGED <<waiters, dir>>
  /\ UNCHANGED <<pc, playlist, m3u8_content, segments, sessionClosed, listed,
                 manifest, outcome, errPhase, runs,
                 playlistStatus, muxer>>

\* a job that was handed a slot resumes and enters download_file
ResumeTask(t) ==
  /\ pc \in TaskPcs
  /\ task[t] = "woken"
  /\ EnterDownloadFile(t)
  /\ UNCHANGED <<pc, playlist, m3u8_content, segments, started, sessionClosed,
                 listed, manifest, outcome, errPhase, runs,
                 playlistStatus, muxer>>

\* session.get returns a response (of any status): open(filename, 'wb')
ResponseArrives(t) ==
  /\ pc \in TaskPcs
  /\ ReadyQueueEmpty
  /\ task[t] = "fetching"
  /\ ~sessionClosed
  /\ task' = [task EXCEPT ![t] = "streaming"]
  /\ dir' = [k \in DOMAIN dir \cup {t} |-> IF k = t THEN "partial" ELSE dir[k]]
  /\ UNCHANGED <<pc, playlist, m3u8_content, segments, started, sem, waiters,
                 sessionClosed, requests, listed, manifest, outcome,
                 errPhase, runs,
                 playlistStatus, muxer>>

\* session.get raises (connection refused, reset, session closed under it)
ConnectFails(t) ==
  /\ pc \in TaskPcs
  /\ ReadyQueueEmpty
  /\ task[t] = "fetching"
  /\ Finish(t, "failed")
  /\ UNCHANGED <<pc, playlist, m3u8_content, segments, started, sessionClosed,
                 dir, requests, listed, manifest, outcome, errPhase, runs,
                 playlistStatus, muxer>>

\* what the file holds once every chunk of a response of this status is written
BodyOf(status) == IF status = "ok" THEN "full" ELSE "error"

\* iter_chunked is exhausted: the file is closed, "Downloaded" is printed
StreamEnds(t, status) ==
  /\ pc \in TaskPcs
  /\ ReadyQueueEmpty
  /\ task[t] = "streaming"
  /\ ~sessionClosed
  /\ dir' = [dir EXCEPT ![t] = BodyOf(status)]
  /\ Finish(t, "done")
  /\ UNCHANGED <<pc, playlist, m3u8_content, segments, started, sessionClosed,
                 requests, listed, manifest, outcome, errPhase, runs,
                 playlistStatus, muxer>>

\* a broken stream after which the job issues its request again
StreamFailsRetry(t) ==
  /\ pc \in TaskPcs
  /\ ReadyQueueEmpty
  /\ task[t] = "streaming"
  /\ task' = [task EXCEPT ![t] = "fetching"]
  /\ requests' = [requests EXCEPT ![t] = @ + 1]
  /\ UNCHANGED <<pc, playlist, m3u8_content, segments, started, sem, waiters,
                 sessionClosed, dir, listed, manifest, outcome, errPhase, runs,
                 playlistStatus, muxer>>

\* iter_chunked raises midway: the file keeps the chunks written so far
StreamFails(t) ==
  /\ pc \in TaskPcs
  /\ ReadyQueueEmpty
  /\ task[t] = "streaming"
  /\ Finish(t, "failed")
  /\ UNCHANGED <<pc, playlist, m3u8_content, segments, started, sessionClosed,
                 dir, requests, listed, manifest, outcome, errPhase, runs,
                 playlistStatus, muxer>>

(* ---------------- download_segments: the end of gather ---------------- *)
\* a gather that returns without looking at its jobs
GatherNeverWaits == TRUE

\* every job has ended without an exception
AllSucceeded == {t \in DOMAIN task : task[t] \notin {"done", "skipped"}} = {}

\* gather returns, the session context exits, download_segments returns
GatherReturns ==
  /\ pc = "gather"
  /\ ReadyQueueEmpty
  /\ AllSucceeded
  /\ sessionClosed' = TRUE
  /\ pc' = "concat"
  /\ UNCHANGED <<playlist, m3u8_content, segments, task, started, sem, waiters,
                 dir, requests, listed, manifest, outcome, errPhase, runs,
                 playlistStatus, muxer>>

AnyFailed == InState("failed") # {}

\* gather re-raises the exception of a failed job while the other jobs keep
\* running; the exception leaves the 'async with' block, whose __aexit__
\* closes the session
GatherRaises ==
  /\ pc = "gather"
  /\ ReadyQueueEmpty
  /\ AnyFailed
  /\ sessionClosed' = TRUE
  /\ pc' = "unwinding"
  /\ UNCHANGED <<playlist, m3u8_content, segments, task, started, sem, waiters,
                 dir, requests, listed, manifest, outcome, errPhase, runs,
                 playlistStatus, muxer>>

\* the exception leaves main(); asyncio.run cancels every job that is still
\* pending, each releases its slot on the way out, and the process exits
CancelAll ==
  /\ pc = "unwinding"
  /\ task' = [k \in DOMAIN task |-> IF task[k] \in Terminal THEN task[k] ELSE "cancelled"]
  /\ sem' = SemaphoreLimit
  /\ waiters' = <<>>
  /\ pc' = "crashed"
  /\ outcome' = "error"
  /\ errPhase' = "download"
  /\ UNCHANGED <<playlist, m3u8_content, segments, started, sessionClosed, dir, requests, listed, manifest, runs,
                 playlistStatus, muxer>>

(* ---------------- concatenate_segments ---------------- *)
\* write segment_list.txt from the sorted directory listing
WriteManifest ==
  /\ pc = "concat"
  /\ listed' = TRUE
  /\ manifest' = ManifestOf(dir)
  /\ pc' = "ffmpeg"
  /\ UNCHANGED <<playlist, m3u8_content, segments, task, started, sem, waiters,
                 sessionClosed, dir, requests, outcome, errPhase, runs,
                 playlistStatus, muxer>>

FfmpegResults == {"ok", "nonzero", "notfound"}

\* subprocess.run without check=True: the exit status of ffmpeg is ignored
OutcomeIgnoringExit(r) == "ok"

\* status of the process after subprocess.run(ffmpeg_cmd, check=True)
OutcomeOf(r) == IF r = "ok" THEN "ok" ELSE "error"

\* subprocess.run(ffmpeg_cmd, check=True): CalledProcessError on a non-zero
\* exit, FileNotFoundError when there is no ffmpeg on the path
RunFfmpeg(r) ==
  /\ pc = "ffmpeg"
  /\ muxer' = r
  /\ outcome' = OutcomeOf(r)
  /\ pc' = IF r = "ok" THEN "done" ELSE "crashed"
  /\ errPhase' = IF r = "ok" THEN errPhase ELSE "assembly"
  /\ UNCHANGED <<playlist, m3u8_content, segments, task, started, sem, waiters,
                 sessionClosed, dir, requests, listed, manifest, runs,
                 playlistStatus>>

(* ---------------- specification of one run in a fresh directory ---------------- *)
NetworkStep ==
  \/ \E t \in InState("fetching") : ResponseArrives(t)
  \/ \E t \in InState("fetching") : ConnectFails(t)
  \/ \E t \in InState("streaming") : \E status \in {"ok", "bad"} : StreamEnds(t, status)
  \/ \E t \in InState("streaming") : StreamFails(t)

AssembleStep ==
  \/ WriteManifest
  \/ \E r \in FfmpegResults : RunFfmpeg(r)

\* every step of the program but the wake-up of a job that had to queue
UnqueuedStep ==
  \/ \E r \in {"ok", "bad", "transport"} : FetchPlaylist(r)
  \/ Parse
  \/ CreateTask
  \/ AwaitGather
  \/ StartTask
  \/ NetworkStep
  \/ GatherReturns
  \/ GatherRaises
  \/ CancelAll
  \/ AssembleStep

Next ==
  \/ UnqueuedStep
  \/ \E t \in InState("woken") : ResumeTask(t)

Spec == Init /\ [][Next]_vars

(* ---------------- running the program again in the same directory ---------------- *)
\* A finished process is followed by a new one: everything the process held
\* is gone, video_segments/ is as the last run left it, and the server may
\* serve another playlist.
Rerun ==
  /\ pc \in {"done", "crashed"}
  /\ runs < MaxRuns
  /\ runs' = runs + 1
  /\ pc' = "start"
  /\ playlist' \in {PlaylistOf(n) : n \in 0..MaxRerunSeg}
  /\ playlistStatus' = "none"
  /\ muxer' = "none"
  /\ m3u8_content' = <<>>
  /\ segments' = <<>>
  /\ task' = <<>>
  /\ started' = 0
  /\ sem' = SemaphoreLimit
  /\ waiters' = <<>>
  /\ sessionClosed' = FALSE
  /\ requests' = <<>>
  /\ outcome' = "running"
  /\ errPhase' = "none"
  /\ UNCHANGED <<dir, listed, manifest>>

InitRerun ==
  /\ ProcessInit
  /\ playlist \in {PlaylistOf(n) : n \in 0..MaxRerunSeg}
  /\ dir = <<>>
  /\ listed = FALSE
  /\ manifest = <<>>
  /\ runs = 1

\* with at most MaxRerunSeg jobs no job ever queues for a slot
NextRerun == UnqueuedStep \/ Rerun

SpecRerun == InitRerun /\ [][NextRerun]_vars

(* ---------------- resuming a long download ---------------- *)
\* The program was started on a playlist of LongCount segments in a directory
\* where an interrupted earlier run left every segment file but the last m.
\* It has retrieved and parsed the playlist and dispatched every job, and the
\* event loop has run the first step of each job whose file exists.
InitLong ==
  /\ pc = "gather"
  /\ playlist = PlaylistOf(LongCount)
  /\ playlistStatus = "ok"
  /\ m3u8_content = playlist
  /\ segments = parse_m3u8(m3u8_content, BaseUrl)
  /\ \E m \in 0..MaxMissing :
       /\ dir = [k \in 0..(LongCount - m - 1) |-> "full"]
       /\ task = [k \in 0..(LongCount - 1) |->
                    IF k < LongCount - m THEN "skipped" ELSE "created"]
       /\ started = LongCount - m
  /\ requests = [k \in 0..(LongCount - 1) |-> 0]
  /\ sem = SemaphoreLimit
  /\ waiters = <<>>
  /\ sessionClosed = FALSE
  /\ outcome = "running"
  /\ errPhase = "none"
  /\ muxer = "none"
  /\ listed = FALSE
  /\ manifest = <<>>
  /\ runs = 1

\* at most MaxMissing jobs fetch, so no job ever queues for a slot
NextLong ==
  \/ StartTask
  \/ NetworkStep
  \/ GatherReturns
  \/ GatherRaises
  \/ CancelAll
  \/ AssembleStep

SpecLong == InitLong /\ [][NextLong]_vars

(* ---------------- the parser on arbitrary text ---------------- *)
RECURSIVE TextsOfLen(_)
TextsOfLen(n) ==
  IF n = 0 THEN {<<>>}
  ELSE {Append(s, c) : s \in TextsOfLen(n - 1), c \in Tokens}

\* every text of at most n tokens
TextsUpTo(n) == UNION {TextsOfLen(k) : k \in 0..n}

\* main() has retrieved some text and is about to parse it
InitParse ==
  /\ pc = "parse"
  /\ playlist \in TextsUpTo(MaxLen)
  /\ m3u8_content = playlist
  /\ playlistStatus = "ok"
  /\ muxer = "none"
  /\ segments = <<>>
  /\ task = <<>>
  /\ started = 0
  /\ sem = SemaphoreLimit
  /\ waiters = <<>>
  /\ sessionClosed = FALSE
  /\ requests = <<>>
  /\ outcome = "running"
  /\ errPhase = "none"
  /\ dir = <<>>
  /\ listed = FALSE
  /\ manifest = <<>>
  /\ runs = 1

NextParse == Parse

SpecParse == InitParse /\ [][NextParse]_vars

(* ---------------- a run whose steps are eventually taken ---------------- *)
\* a first run on a playlist with more segments than the semaphore has slots
InitFair ==
  /\ ProcessInit
  /\ playlist = PlaylistOf(MaxFairSeg)
  /\ dir = <<>>
  /\ listed = FALSE
  /\ manifest = <<>>
  /\ runs = 1

NextFair == Next

\* the steps the event loop takes while download_segments awaits its jobs
LoopStep ==
  \/ StartTask
  \/ \E t \in InState("woken") : ResumeTask(t)
  \/ NetworkStep
  \/ GatherReturns
  \/ GatherRaises
  \/ CancelAll

\* The event loop keeps running: a step of it that stays possible is taken.
\* For the network this is the assumption that every request that was
\* started eventually gets its response or fails, and every stream
\* eventually ends or breaks.
SpecFair == InitFair /\ [][NextFair]_vars /\ WF_vars(LoopStep)

(* ======================= the claims ======================= *)

\* C1: at any moment at most 5 jobs hold a slot of the semaphore, that is,
\* are inside download_file, however starts, completions and failures interleave.
C1_ConcurrencyBound == Cardinality(Holders) <= SemaphoreLimit

\* the limit is reached while a further job is queued behind it
C1_Witness == Cardinality(Holders) = SemaphoreLimit /\ waiters # <<>>

\* the file names of segments 0..n-1 in playlist order
InIndexOrder(n) == [k \in 1..n |-> SegmentName(k - 1)]

\* C2: when the playlist was retrieved and every fetch succeeded, the manifest
\* lists the segment files of L0..Ln-1 in exactly playlist order.
C2_ManifestInPlaylistOrder ==
  (/\ pc = "ffmpeg"
   /\ playlistStatus = "ok"
   /\ InState("done") # {}
   /\ {t \in InState("done") : dir[t] # "full"} = {})
  => manifest = InIndexOrder(N)

\* C3: when job k alone gets a non-success response, the finished run has
\* reported a download failure of job k and the files of all other jobs exist.
C3_PartialFailureReported ==
  \A k \in DOMAIN task :
    (/\ pc \in {"done", "crashed"}
     /\ Exists(k) /\ dir[k] = "error"
     /\ \A j \in DOMAIN task \ {k} :
          task[j] # "failed" /\ ~(Exists(j) /\ dir[j] = "error"))
    => /\ outcome = "error"
       /\ errPhase = "download"
       /\ task[k] = "failed"
       /\ \A j \in DOMAIN task \ {k} : Exists(j)

\* C4: a job whose file exists issues no retrieval, and a run that finds all
\* N segment files present fetches nothing and writes a manifest of those N
\* files in playlist order.
C4_RerunSkipsAndAssembles ==
  /\ {t \in InState("skipped") : requests[t] # 0} = {}
  /\ (pc = "ffmpeg" /\ playlistStatus = "ok" /\ InState("skipped") = DOMAIN task)
     => /\ {t \in DOMAIN task : requests[t] # 0} = {}
        /\ manifest = InIndexOrder(N)

\* C5: a job never ends as downloaded when its retrieval got a non-success
\* response: the file of a job that reported "Downloaded" holds the content
\* of a successful response.
C5_NonSuccessFails ==
  \A t \in DOMAIN task : task[t] = "done" => Exists(t) /\ dir[t] = "full"

\* C6: across runs, leaving aside bodies of non-success responses: after a
\* re-run in which download_segments returned normally and fetched at least
\* one segment, every segment file of the playlist holds its full content.
C6_RerunCompletes ==
  (/\ runs >= 2
   /\ pc = "concat"
   /\ playlistStatus = "ok"
   /\ InState("done") # {}
   /\ \A k \in DOMAIN dir : dir[k] # "error")
  => \A t \in DOMAIN task : Exists(t) /\ dir[t] = "full"

\* C7: when download_segments has returned, sorting the destination file
\* names of its jobs lexicographically yields them in increasing index order.
C7_SortedIsIndexOrder ==
  pc = "concat"
  => SortSeq(InIndexOrder(N), StrLess) = InIndexOrder(N)

\* C8: when the retrieval of the playlist fails, by a transport failure or a
\* non-success response, the run has ended in the playlist phase with no job
\* dispatched and no manifest written.
C8_PlaylistFailureFatal ==
  playlistStatus \in {"bad", "transport"}
  => pc = "crashed" /\ errPhase = "playlist" /\ NumTasks = 0 /\ ~listed

\* what the parser is to return: one URL, in order, for every line that ends
\* with '.ts' after trimming
ExpectedSegments(content, base_url) ==
  LET trimmed(line) == endswith_ts(strip(line))
      sel == SelectSeq(split(content), trimmed)
  IN [k \in 1..Len(sel) |->
        IF Head(strip(sel[k])) = ABS THEN strip(sel[k]) ELSE base_url \o strip(sel[k])]

\* C9: parse_m3u8 returns, in source order, exactly one URL for each line
\* that ends with '.ts' after trimming, resolved against the base URL unless
\* it is absolute, and nothing for any other line.
C9_ParserFilter ==
  pc = "dispatch" => segments = ExpectedSegments(m3u8_content, BaseUrl)

\* C10: when ffmpeg exits non-zero or is not found, the run ends with an
\* error of the assembly phase, and no step of concatenate_segments changes
\* a segment file.
C10_AssemblyFailure ==
  [][/\ (pc \in {"concat", "ffmpeg"} => dir' = dir)
     /\ (pc = "ffmpeg" /\ muxer' \in {"nonzero", "notfound"}
         => pc' = "crashed" /\ outcome' = "error" /\ errPhase' = "assembly")]_vars

\* ffmpeg has failed in a directory that holds segment files
C10_Witness ==
  /\ pc = "crashed"
  /\ muxer \in {"nonzero", "notfound"}
  /\ DOMAIN dir # {}

\* main() is past parse_m3u8 on a text that was retrieved
PastParse ==
  /\ playlistStatus \in {"ok", "bad"}
  /\ pc \in {"dispatch", "gather", "unwinding", "concat", "ffmpeg", "done", "crashed"}

\* some line of the text ends with '.ts' once trailing whitespace is trimmed:
\* a '.ts' followed, up to the end of its line, by whitespace only
HasSegmentLine(content) ==
  \E p \in 1..Len(content) :
    /\ content[p] = TS
    /\ \A q \in (p + 1)..Len(content) :
         \/ \E r \in (p + 1)..q : content[r] = NL
         \/ content[q] \in Whitespace

\* C11: when no line of the retrieved text ends with '.ts', parse_m3u8 yields
\* the empty sequence, download_segments dispatches no job, and neither the
\* parse nor the download phase ends in an error.
C11_EmptyPlaylistNoError ==
  (PastParse /\ ~HasSegmentLine(m3u8_content))
  => /\ segments = <<>>
     /\ NumTasks = 0
     /\ pc # "unwinding"
     /\ errPhase \notin {"playlist", "download"}

\* download_segments has returned normally on a playlist without segments
C11_Witness ==
  /\ pc = "concat"
  /\ playlistStatus = "ok"
  /\ ~HasSegmentLine(m3u8_content)
  /\ NumTasks = 0

\* C12: download_segments has neither returned nor raised to main() while a
\* job it dispatched is still queued or in flight: whenever main() is past
\* the gather, every job is in a terminal state.
C12_WaitsForEveryJob ==
  (PastParse /\ pc \notin {"dispatch", "gather"})
  => \A t \in DOMAIN task : task[t] \in Terminal

\* C13: the slots of the semaphore are conserved: in every state the free
\* slots plus the jobs holding one make 5, no job waits behind a free slot
\* it could take, and once every job is terminal all 5 slots are free,
\* failed fetches included.
C13_SlotsConserved ==
  /\ sem + Cardinality(Holders) = SemaphoreLimit
  /\ (\A t \in DOMAIN task : task[t] \in Terminal) => sem = SemaphoreLimit /\ waiters = <<>>

\* more jobs than slots have all ended, one of them by a failed fetch
C13_Witness ==
  /\ NumTasks > SemaphoreLimit
  /\ \A t \in DOMAIN task : task[t] \in Terminal
  /\ InState("failed") # {}
  /\ InState("done") # {}
  /\ sem = SemaphoreLimit

\* the job dispatched last on the longest playlist
LastJob == MaxFairSeg - 1

\* C14: when every step that stays possible is eventually taken, a job that
\* waits for a slot (here the last of the queue) eventually holds one.
C14_NoStarvation ==
  (LastJob \in DOMAIN task /\ task[LastJob] = "waiting")
    ~> (LastJob \in DOMAIN task /\ task[LastJob] \in Holding)

\* C15: the jobs of one download_segments call carry the indices 0..n-1 in
\* creation order, one job per playlist entry, and no two of them have the
\* same destination file name, so no file is open for writing in two jobs;
\* this holds when the playlist names the same URL twice.
C15_DisjointDestinations ==
  /\ DOMAIN task = 0..(NumTasks - 1)
  /\ NumTasks <= N
  /\ Cardinality({SegmentName(t) : t \in DOMAIN task}) = NumTasks

\* two jobs for the same URL write their files at the same time
C15_Witness ==
  \E i, j \in InState("streaming") : i # j /\ segments[i + 1] = segments[j + 1]

\* C16: while download_segments creates its jobs none of them has run a
\* step, and a job only leaves the created state once all N jobs exist: no
\* dispatch waits for an earlier job, no fetch starts before the last dispatch.
C16_DispatchBeforeWait ==
  /\ pc = "dispatch" => started = 0 /\ InState("created") = DOMAIN task
  /\ (started > 0 \/ InState("created") # DOMAIN task) => NumTasks = N

\* gather is awaited with more jobs than slots created and none of them started
C16_Witness ==
  /\ pc = "gather"
  /\ NumTasks = N
  /\ N > SemaphoreLimit
  /\ started = 0
  /\ InState("created") = DOMAIN task

\* C17: within a run no segment index is requested more than once, a job
\* that reported "Downloaded" issued exactly one request, and a job that has
\* ended (done, skipped, failed or cancelled) stays as it ended: no retry.
C17_NoRetry ==
  /\ [](\A t \in DOMAIN task :
          /\ requests[t] <= 1
          /\ task[t] = "done" => requests[t] = 1)
  /\ [][\A t \in DOMAIN task :
          task[t] \in Terminal => t \in DOMAIN task' /\ task'[t] = task[t]]_vars

\* the run has ended after a fetch failed midway: its one request was not repeated
C17_Witness ==
  /\ pc = "crashed"
  /\ \E t \in InState("failed") : requests[t] = 1 /\ Exists(t) /\ dir[t] = "partial"
  /\ InState("done") # {}

\* C18: concatenate_segments runs only after download_segments returned
\* normally: whenever the assembler has been entered, has written its
\* manifest or has run ffmpeg, every job of the playlist was dispatched and
\* has ended by downloading or skipping, none is queued, in flight or failed.
C18_AssemblyAfterDownload ==
  (pc \in {"concat", "ffmpeg", "done"} \/ listed \/ muxer # "none")
  => /\ NumTasks = N
     /\ sessionClosed
     /\ \A t \in DOMAIN task : task[t] \in {"done", "skipped"}

\* the assembler runs after more jobs than slots have all downloaded
C18_Witness ==
  /\ pc = "ffmpeg"
  /\ listed
  /\ N > SemaphoreLimit
  /\ InState("done") = DOMAIN task

\* C19: after a successful run the manifest has exactly N entries, the files
\* of the indices 0..N-1 of this run's playlist, whatever '.ts' files the
\* directory held before the run.
C19_ManifestOfCurrentRun ==
  (pc = "done" /\ playlistStatus = "ok")
  => /\ Len(manifest) = N
     /\ \A k \in 1..Len(manifest) : \E t \in DOMAIN task : manifest[k] = SegmentName(t)

\* C20: the ClientSession of download_segments is closed only when every
\* job has ended: in no state is the session closed while a job is queued
\* or in the middle of a fetch.
C20_SessionOutlivesJobs ==
  sessionClosed => \A t \in DOMAIN task : task[t] \in Terminal
====
